---- MODULE Spec2Model ----
(***************************************************************************)
(* Model of the rule-based scoring service of the team tracker backend,    *)
(* backend/services/ai/smartFeatures.js (class SmartFeaturesService).      *)
(*                                                                         *)
(* Time is counted in ticks; one day is TicksPerDay ticks, so that due     *)
(* dates that are a fraction of a day away from the clock exist.  The      *)
(* clock `now` is the ambient clock the service reads with `new Date()`;   *)
(* it advances on its own (Tick) between the steps of a call.              *)
(*                                                                         *)
(* An optional JavaScript value is a sequence of length 0 or 1: <<>> is    *)
(* an absent field (undefined) or the NaN a computation on it yields,      *)
(* <<v>> is the value v.                                                   *)
(***************************************************************************)
EXTENDS Integers, Sequences, FiniteSets, TLC

----------------------------------------------------------------------------
(* Bounds of the model *)

TicksPerDay == 2
MaxNow == 2
DaysBack == 2
DaysAhead == 3
MaxTasks == 3
MaxRows == 2
MaxMembers == 2

(* Program constants *)

hoursPerDay == 6

----------------------------------------------------------------------------
(* JavaScript values *)

None == <<>>
Some(v) == <<v>>
IsSet(x) == x # <<>>

\* x < n, x <= n, x > n of JavaScript for a number, undefined or NaN x:
\* a comparison with undefined or NaN is false
Lt(x, n) == IsSet(x) /\ x[1] < n
Le(x, n) == IsSet(x) /\ x[1] <= n
Gt(x, n) == IsSet(x) /\ x[1] > n

Min(a, b) == IF a < b THEN a ELSE b
Max(a, b) == IF a > b THEN a ELSE b
Abs(a) == IF a < 0 THEN -a ELSE a

\* Math.ceil(a / b) for b > 0 (Math.ceil of a value in (-1, 0) is -0, which
\* compares and prints as 0)
Ceil(a, b) == -((-a) \div b)

\* Math.ceil((new Date(due_date) - now) / (1000 * 60 * 60 * 24)); an absent
\* due_date makes an Invalid Date and the result NaN
daysUntil(due_date, clock) ==
    IF IsSet(due_date) THEN Some(Ceil(due_date[1] - clock, TicksPerDay)) ELSE None

----------------------------------------------------------------------------
(* calculateRiskScore(task), reading the clock as `clock` *)

\* if (daysUntilDue < 0) score += 5
overdueBonus(task, daysUntilDue) == IF Lt(daysUntilDue, 0) THEN 5 ELSE 0

\* if (daysUntilDue <= 1 && progress < 80) score += 4
\* else if (daysUntilDue <= 3 && progress < 50) score += 3
dueSoonBonus(task, daysUntilDue) ==
    IF Le(daysUntilDue, 1) /\ Lt(task.progress, 80) THEN 4
    ELSE IF Le(daysUntilDue, 3) /\ Lt(task.progress, 50) THEN 3
    ELSE 0

\* if (priority === 'high' && progress < 30) score += 2
priorityBonus(task) ==
    IF task.priority = "high" /\ Lt(task.progress, 30) THEN 2 ELSE 0

\* task.depends_on && task.depends_on.length > 0
hasDependencies(task) == IsSet(task.depends_on) /\ Len(task.depends_on[1]) > 0

\* if (depends_on && depends_on.length > 0) score += 1
dependencyBonus(task) == IF hasDependencies(task) THEN 1 ELSE 0

\* faulty variant: the bonus is given whatever the sign of daysUntilDue
hoursBonus_anyDay(task, daysUntilDue) ==
    IF /\ IsSet(task.estimated_hours)
       /\ task.estimated_hours[1] # 0
       /\ IsSet(daysUntilDue)
       /\ task.estimated_hours[1] > hoursPerDay * daysUntilDue[1]
    THEN 2 ELSE 0

\* if (estimated_hours && daysUntilDue > 0) and requiredDays > daysUntilDue,
\* with requiredDays = estimated_hours / hoursPerDay: score += 2
hoursBonus(task, daysUntilDue) ==
    IF /\ IsSet(task.estimated_hours)
       /\ task.estimated_hours[1] # 0
       /\ Gt(daysUntilDue, 0)
       /\ task.estimated_hours[1] > hoursPerDay * daysUntilDue[1]
    THEN 2 ELSE 0

\* the score before Math.min(10, score)
riskSum(task, clock) ==
    LET daysUntilDue == daysUntil(task.due_date, clock)
    IN  overdueBonus(task, daysUntilDue) + dueSoonBonus(task, daysUntilDue)
        + priorityBonus(task) + dependencyBonus(task)
        + hoursBonus(task, daysUntilDue)

\* faulty variant: the clamp to 10 is left out
calculateRiskScore_noClamp(task, clock) == riskSum(task, clock)

\* faulty variant: the due-soon bonus is not given to a task that is already overdue
calculateRiskScore_overdueOnly(task, clock) ==
    LET daysUntilDue == daysUntil(task.due_date, clock)
    IN  Min(10, overdueBonus(task, daysUntilDue)
                + (IF Lt(daysUntilDue, 0) THEN 0 ELSE dueSoonBonus(task, daysUntilDue))
                + priorityBonus(task) + dependencyBonus(task)
                + hoursBonus(task, daysUntilDue))

calculateRiskScore(task, clock) == Min(10, riskSum(task, clock))

(* getRiskReasons(task, score), reading the clock as `clock`.  A reason is   *)
(* a tuple of its text and the number interpolated into it.                 *)

\* faulty variant: 'High priority' is pushed before 'Only P% complete'
getRiskReasons_swapped(task, score, clock) ==
    LET daysUntilDue == daysUntil(task.due_date, clock)
        r1 == IF Lt(daysUntilDue, 0)
              THEN << <<"Overdue by N day(s)", Abs(daysUntilDue[1])>> >>
              ELSE IF Le(daysUntilDue, 1)
                   THEN << <<"Due in N day(s)", daysUntilDue[1]>> >>
                   ELSE <<>>
        r2 == IF Lt(task.progress, 50) /\ Le(daysUntilDue, 3)
              THEN << <<"Only P% complete", task.progress[1]>> >>
              ELSE <<>>
        r3 == IF task.priority = "high" THEN << <<"High priority">> >> ELSE <<>>
        r4 == IF hasDependencies(task) THEN << <<"Has dependencies">> >> ELSE <<>>
    IN  r1 \o r3 \o r2 \o r4

\* faulty variant: no clause for a task that is due within a day
getRiskReasons_noDueSoon(task, score, clock) ==
    LET daysUntilDue == daysUntil(task.due_date, clock)
        r1 == IF Lt(daysUntilDue, 0)
              THEN << <<"Overdue by N day(s)", Abs(daysUntilDue[1])>> >>
              ELSE <<>>
        r2 == IF Lt(task.progress, 50) /\ Le(daysUntilDue, 3)
              THEN << <<"Only P% complete", task.progress[1]>> >>
              ELSE <<>>
        r3 == IF task.priority = "high" THEN << <<"High priority">> >> ELSE <<>>
        r4 == IF hasDependencies(task) THEN << <<"Has dependencies">> >> ELSE <<>>
    IN  r1 \o r2 \o r3 \o r4

getRiskReasons(task, score, clock) ==
    LET daysUntilDue == daysUntil(task.due_date, clock)
        r1 == IF Lt(daysUntilDue, 0)
              THEN << <<"Overdue by N day(s)", Abs(daysUntilDue[1])>> >>
              ELSE IF Le(daysUntilDue, 1)
                   THEN << <<"Due in N day(s)", daysUntilDue[1]>> >>
                   ELSE <<>>
        r2 == IF Lt(task.progress, 50) /\ Le(daysUntilDue, 3)
              THEN << <<"Only P% complete", task.progress[1]>> >>
              ELSE <<>>
        r3 == IF task.priority = "high" THEN << <<"High priority">> >> ELSE <<>>
        r4 == IF hasDependencies(task) THEN << <<"Has dependencies">> >> ELSE <<>>
    IN  r1 \o r2 \o r3 \o r4

\* faulty variant: a score of exactly 7 is classed medium
severityOf_above7(riskScore) == IF riskScore > 7 THEN "high" ELSE "medium"

\* the severity detectRisks gives a score it reports
severityOf(riskScore) == IF riskScore >= 7 THEN "high" ELSE "medium"

\* faulty variant: only the high branch pushes
reported_highOnly(riskScore) == riskScore >= 7

\* whether detectRisks pushes an entry for a score
reported(riskScore) == riskScore >= 7 \/ riskScore >= 4

\* the entry detectRisks pushes
riskEntry(task, riskScore, clock) ==
    [task |-> task, riskScore |-> riskScore, severity |-> severityOf(riskScore),
     reasons |-> getRiskReasons(task, riskScore, clock)]

\* faulty variant: an element goes before the elements it ties with
RECURSIVE insertRisk_unstable(_, _)
insertRisk_unstable(sorted, e) ==
    IF sorted = <<>> THEN <<e>>
    ELSE IF e.riskScore - Head(sorted).riskScore >= 0
         THEN <<e>> \o sorted
         ELSE <<Head(sorted)>> \o insertRisk_unstable(Tail(sorted), e)

\* risks.sort((a, b) => b.riskScore - a.riskScore): Array.prototype.sort is
\* stable; an element goes after every element the comparator does not put
\* behind it
RECURSIVE insertRisk(_, _)
insertRisk(sorted, e) ==
    IF sorted = <<>> THEN <<e>>
    ELSE IF e.riskScore - Head(sorted).riskScore > 0
         THEN <<e>> \o sorted
         ELSE <<Head(sorted)>> \o insertRisk(Tail(sorted), e)

RECURSIVE sortRisks(_)
sortRisks(risks) ==
    IF risks = <<>> THEN <<>>
    ELSE insertRisk(sortRisks(SubSeq(risks, 1, Len(risks) - 1)), risks[Len(risks)])

----------------------------------------------------------------------------
(* predictCompletion(item), reading the clock as `clock`.                   *)
(*                                                                          *)
(* A day count is [v, neg]: the integer Math.ceil yields and whether the    *)
(* quotient was negative, which tells -0 from 0.  A JavaScript number that  *)
(* may not be finite is [k, num, den]: the fraction num/den (den > 0) for   *)
(* k = "fin", the infinity of the sign of num for k = "inf", NaN for        *)
(* k = "nan".  The fractions are exact; for the day counts of this model    *)
(* (below 10, and the 30-day goal) the doubles of the program compare and   *)
(* round the same way.                                                      *)

Fin(num, den) == [k |-> "fin", num |-> num, den |-> den]
Inf(sign) == [k |-> "inf", num |-> sign, den |-> 0]
NaN == [k |-> "nan", num |-> 0, den |-> 0]

Sign(a) == IF a < 0 THEN -1 ELSE 1

\* Math.ceil((a - b) / (1000 * 60 * 60 * 24)) for two dates, NaN (<<>>) if
\* either is an Invalid Date
ceilDays(a, b) ==
    IF IsSet(a) /\ IsSet(b)
    THEN Some([v |-> Ceil(a[1] - b[1], TicksPerDay), neg |-> a[1] - b[1] < 0])
    ELSE None

\* faulty variant: the quotient is taken the other way round
expectedProgressOf_inverted(daysElapsed, totalDays) ==
    IF ~IsSet(daysElapsed) \/ ~IsSet(totalDays) THEN NaN
    ELSE LET e == daysElapsed[1]
             t == totalDays[1]
         IN  IF e.v = 0
             THEN IF t.v = 0 THEN NaN
                  ELSE Inf(Sign(t.v) * (IF e.neg THEN -1 ELSE 1))
             ELSE Fin(100 * t.v * Sign(e.v), Abs(e.v))

\* (daysElapsed / totalDays) * 100
expectedProgressOf(daysElapsed, totalDays) ==
    IF ~IsSet(daysElapsed) \/ ~IsSet(totalDays) THEN NaN
    ELSE LET e == daysElapsed[1]
             t == totalDays[1]
         IN  IF t.v = 0
             THEN IF e.v = 0 THEN NaN
                  ELSE Inf(Sign(e.v) * (IF t.neg THEN -1 ELSE 1))
             ELSE Fin(100 * e.v * Sign(t.v), Abs(t.v))

\* actualProgress - expectedProgress
minus(actual, x) ==
    IF x.k = "fin" THEN Fin(actual * x.den - x.num, x.den)
    ELSE IF x.k = "inf" THEN Inf(-x.num)
    ELSE NaN

\* x >= c
Ge(x, c) ==
    IF x.k = "fin" THEN x.num >= c * x.den
    ELSE IF x.k = "inf" THEN x.num > 0
    ELSE FALSE

\* Math.round(x): to the nearest integer, halves up; Infinity and NaN stay
round(x) ==
    IF x.k = "fin" THEN Fin((2 * x.num + x.den) \div (2 * x.den), 1) ELSE x

\* faulty variant: the progress is looked at before the deadline
classOf_progressFirst(daysRemaining, progressDelta) ==
    IF Ge(progressDelta, 10)
    THEN <<"ahead_of_schedule", 90, "On track, maintain momentum">>
    ELSE IF IsSet(daysRemaining) /\ daysRemaining[1].v < 0
    THEN <<"overdue", 100, "Immediate action required">>
    ELSE IF Ge(progressDelta, -10)
    THEN <<"on_track", 80, "Progressing well">>
    ELSE IF Ge(progressDelta, -25)
    THEN <<"at_risk", 70, "May need additional resources">>
    ELSE <<"behind_schedule", 85, "Requires immediate attention">>

\* faulty variant: behind_schedule gets the confidence of the step before it
classOf_falling(daysRemaining, progressDelta) ==
    IF IsSet(daysRemaining) /\ daysRemaining[1].v < 0
    THEN <<"overdue", 100, "Immediate action required">>
    ELSE IF Ge(progressDelta, 10)
    THEN <<"ahead_of_schedule", 90, "On track, maintain momentum">>
    ELSE IF Ge(progressDelta, -10)
    THEN <<"on_track", 80, "Progressing well">>
    ELSE IF Ge(progressDelta, -25)
    THEN <<"at_risk", 70, "May need additional resources">>
    ELSE <<"behind_schedule", 60, "Requires immediate attention">>

\* the if / else if chain: <<status, confidence, recommendation>>
classOf(daysRemaining, progressDelta) ==
    IF IsSet(daysRemaining) /\ daysRemaining[1].v < 0
    THEN <<"overdue", 100, "Immediate action required">>
    ELSE IF Ge(progressDelta, 10)
    THEN <<"ahead_of_schedule", 90, "On track, maintain momentum">>
    ELSE IF Ge(progressDelta, -10)
    THEN <<"on_track", 80, "Progressing well">>
    ELSE IF Ge(progressDelta, -25)
    THEN <<"at_risk", 70, "May need additional resources">>
    ELSE <<"behind_schedule", 85, "Requires immediate attention">>

predictCompletion(item, clock) ==
    LET totalDays == ceilDays(item.due_date, item.created_at)
        daysElapsed == ceilDays(Some(clock), item.created_at)
        daysRemaining == ceilDays(item.due_date, Some(clock))
        expectedProgress == expectedProgressOf(daysElapsed, totalDays)
        \* item.progress || 0
        actualProgress == IF IsSet(item.progress) THEN item.progress[1] ELSE 0
        progressDelta == minus(actualProgress, expectedProgress)
        class == classOf(daysRemaining, progressDelta)
    IN  [status |-> class[1],
         confidence |-> class[2],
         recommendation |-> class[3],
         metrics |-> [expectedProgress |-> round(expectedProgress),
                      actualProgress |-> actualProgress,
                      progressDelta |-> round(progressDelta),
                      daysRemaining |->
                          IF IsSet(daysRemaining) THEN Some(daysRemaining[1].v)
                          ELSE None]]

----------------------------------------------------------------------------
(* GET /api/ai/risks: the rows the handler's query selects for req.user *)

\* faulty variant: the query does not select on status
risksQuery_anyStatus(table, user) ==
    LET selected(row) ==
            IF user.role = "employee" \/ user.role = "intern"
            THEN row.assigned_to = user.id
            ELSE IF user.role = "lead" THEN row.dept = user.dept ELSE TRUE
    IN  SelectSeq(table, selected)

risksQuery(table, user) ==
    LET selected(row) ==
            /\ row.status \in {"pending", "in_progress"}
            /\ IF user.role = "employee" \/ user.role = "intern"
               THEN row.assigned_to = user.id
               ELSE IF user.role = "lead" THEN row.dept = user.dept ELSE TRUE
    IN  SelectSeq(table, selected)

(* GET /api/ai/suggestions *)

\* faulty variant: the role of a user is not looked at
membersQuery_anyRole(table, user) ==
    LET found == SelectSeq(table, LAMBDA u : u.dept = user.dept /\ u.status = "active")
    IN  [k \in 1..Len(found) |->
            [id |-> found[k].id, name |-> found[k].name, email |-> found[k].email,
             role |-> found[k].role, skills |-> None]]

\* SELECT id, name, email, role FROM users WHERE dept = $1 AND status = 'active'
\* AND role IN ('employee', 'intern'); no column of the answer is `skills`
membersQuery(table, user) ==
    LET found == SelectSeq(table, LAMBDA u : /\ u.dept = user.dept
                                             /\ u.status = "active"
                                             /\ u.role \in {"employee", "intern"})
    IN  [k \in 1..Len(found) |->
            [id |-> found[k].id, name |-> found[k].name, email |-> found[k].email,
             role |-> found[k].role, skills |-> None]]

\* SELECT * FROM weekly_tasks WHERE id = $1
taskQuery(table, task_id) == SelectSeq(table, LAMBDA row : row.id = task_id)

\* SELECT * FROM weekly_tasks WHERE status IN ('pending', 'in_progress')
activeTasksQuery(table) ==
    SelectSeq(table, LAMBDA row : row.status \in {"pending", "in_progress"})

\* the answer for what suggestAssignee returned: reading suggestion.member of
\* undefined throws, and the catch block answers 500
suggestionResponse(returned) ==
    IF ~IsSet(returned)
    THEN [status |-> 500, body |-> [error |-> "Failed to generate suggestions"]]
    ELSE [status |-> 200,
          body |-> [suggestion |->
                       [member |-> [id |-> returned[1].member.id,
                                    name |-> returned[1].member.name],
                        score |-> returned[1].score,
                        reasoning |-> returned[1].reasoning,
                        activeTasks |-> returned[1].activeTasks]]]

\* the body of the handler's answer
risksResponse(found) ==
    [risks |-> found,
     count |-> Len(found),
     high_severity |-> Len(SelectSeq(found, LAMBDA r : r.severity = "high")),
     medium_severity |-> Len(SelectSeq(found, LAMBDA r : r.severity = "medium"))]

----------------------------------------------------------------------------
(* suggestAssignee *)

upcomingDays == 3

\* existingTasks.filter(t => t.assigned_to === member.id &&
\*                           ['pending', 'in_progress'].includes(t.status))
memberTasksOf(member, list) ==
    SelectSeq(list, LAMBDA t : t.assigned_to = member.id
                               /\ t.status \in {"pending", "in_progress"})

\* memberTasks.filter(t => new Date(t.due_date) < new Date()).length
overdueCountOf(memberTasks, clock) ==
    Len(SelectSeq(memberTasks, LAMBDA t : Lt(t.due_date, clock)))

\* taskData.tags.filter(tag => member.skills.includes(tag)).length, 0 when
\* tags or skills are missing
matchingSkills(taskData, member) ==
    IF IsSet(taskData.tags) /\ IsSet(member.skills)
    THEN Len(SelectSeq(taskData.tags[1],
                       LAMBDA tag : \E k \in 1..Len(member.skills[1]) :
                                        member.skills[1][k] = tag))
    ELSE 0

\* the tasks with Math.ceil((due_date - now) / day) <= 3
upcomingDeadlines(memberTasks, clock) ==
    Len(SelectSeq(memberTasks, LAMBDA t : Le(daysUntil(t.due_date, clock),
                                             upcomingDays)))

\* faulty variant: the soon-due tasks cost nothing
rawScore_noUpcoming(member, memberTasks, overdueCount, taskData, clock) ==
    100 - Len(memberTasks) * 15 - overdueCount * 25
        + matchingSkills(taskData, member) * 20

\* faulty variant: each active task adds to the score
rawScore_rewardsLoad(member, memberTasks, overdueCount, taskData, clock) ==
    100 + Len(memberTasks) * 15 - overdueCount * 25
        + matchingSkills(taskData, member) * 20
        - upcomingDeadlines(memberTasks, clock) * 10

\* the callback's score before Math.max
rawScore(member, memberTasks, overdueCount, taskData, clock) ==
    100 - Len(memberTasks) * 15 - overdueCount * 25
        + matchingSkills(taskData, member) * 20
        - upcomingDeadlines(memberTasks, clock) * 10

\* faulty variant: Best fit only above 80
generateReasoning_strict(member, taskCount, overdueCount, score) ==
    LET base == IF taskCount = 0 THEN <<"no active tasks", 0>>
                ELSE IF taskCount <= 2
                THEN IF taskCount > 1 THEN <<"only N active tasks", taskCount>>
                     ELSE <<"only N active task", taskCount>>
                ELSE <<"N active tasks", taskCount>>
        reasons == IF overdueCount > 0 THEN <<base, <<"N overdue", overdueCount>>>>
                   ELSE <<base>>
    IN  [name |-> member.name,
         fit |-> IF score > 80 THEN "Best fit"
                 ELSE IF score >= 50 THEN "Good fit"
                 ELSE "Available but busy",
         reasons |-> reasons]

\* `${member.name} - <fit>: ${reasons.join(', ')}`: the name, the tier and the
\* clauses, each clause with the number printed in it
generateReasoning(member, taskCount, overdueCount, score) ==
    LET base == IF taskCount = 0 THEN <<"no active tasks", 0>>
                ELSE IF taskCount <= 2
                THEN IF taskCount > 1 THEN <<"only N active tasks", taskCount>>
                     ELSE <<"only N active task", taskCount>>
                ELSE <<"N active tasks", taskCount>>
        reasons == IF overdueCount > 0 THEN <<base, <<"N overdue", overdueCount>>>>
                   ELSE <<base>>
    IN  [name |-> member.name,
         fit |-> IF score >= 80 THEN "Best fit"
                 ELSE IF score >= 50 THEN "Good fit"
                 ELSE "Available but busy",
         reasons |-> reasons]

\* faulty variant: the score is returned as computed
scoreEntry_noFloor(member, memberTasks, overdueCount, score) ==
    [member |-> member,
     score |-> score,
     activeTasks |-> Len(memberTasks),
     overdueCount |-> overdueCount,
     reasoning |-> generateReasoning(member, Len(memberTasks), overdueCount, score)]

\* the object the map callback returns; the reasoning is made from the score
\* before Math.max
scoreEntry(member, memberTasks, overdueCount, score) ==
    [member |-> member,
     score |-> Max(0, score),
     activeTasks |-> Len(memberTasks),
     overdueCount |-> overdueCount,
     reasoning |-> generateReasoning(member, Len(memberTasks), overdueCount, score)]

RECURSIVE insertScore_unstable(_, _)
\* faulty variant: an entry goes before the entries of its own score
insertScore_unstable(sorted, e) ==
    IF sorted = <<>> THEN <<e>>
    ELSE IF Head(sorted).score > e.score
         THEN <<Head(sorted)>> \o insertScore_unstable(Tail(sorted), e)
         ELSE <<e>> \o sorted

RECURSIVE insertScore(_, _)
\* `e` goes after every entry whose score is at least its own
insertScore(sorted, e) ==
    IF sorted = <<>> THEN <<e>>
    ELSE IF Head(sorted).score >= e.score
         THEN <<Head(sorted)>> \o insertScore(Tail(sorted), e)
         ELSE <<e>> \o sorted

RECURSIVE sortScores(_)
\* scores.sort((a, b) => b.score - a.score): descending, stable
sortScores(list) ==
    IF list = <<>> THEN <<>>
    ELSE insertScore(sortScores(SubSeq(list, 1, Len(list) - 1)), list[Len(list)])

\* faulty variant: the last entry of the sorted array is returned
topOf_last(sorted) == IF sorted = <<>> THEN None ELSE Some(sorted[Len(sorted)])

\* return scores[0]: undefined for an empty array
topOf(sorted) == IF sorted = <<>> THEN None ELSE Some(sorted[1])

----------------------------------------------------------------------------
(* suggestWorkloadBalancing *)

\* teamMembers.map(member => ({member, taskCount, tasks})) with the member's
\* tasks of status pending or in_progress
workloadOf(members, list) ==
    [k \in 1..Len(members) |->
        LET mine == SelectSeq(list, LAMBDA t : t.assigned_to = members[k].id
                                               /\ t.status \in {"pending", "in_progress"})
        IN  [member |-> members[k], taskCount |-> Len(mine), tasks |-> mine]]

RECURSIVE insertLoad_unstable(_, _)
\* faulty variant: an entry goes before the entries of its own taskCount
insertLoad_unstable(sorted, e) ==
    IF sorted = <<>> THEN <<e>>
    ELSE IF Head(sorted).taskCount > e.taskCount
         THEN <<Head(sorted)>> \o insertLoad_unstable(Tail(sorted), e)
         ELSE <<e>> \o sorted

RECURSIVE insertLoad(_, _)
\* `e` goes after every entry whose taskCount is at least its own
insertLoad(sorted, e) ==
    IF sorted = <<>> THEN <<e>>
    ELSE IF Head(sorted).taskCount >= e.taskCount
         THEN <<Head(sorted)>> \o insertLoad(Tail(sorted), e)
         ELSE <<e>> \o sorted

RECURSIVE sortWorkload(_)
\* workload.sort((a, b) => b.taskCount - a.taskCount): descending, stable
sortWorkload(list) ==
    IF list = <<>> THEN <<>>
    ELSE insertLoad(sortWorkload(SubSeq(list, 1, Len(list) - 1)), list[Len(list)])

\* faulty variant: a difference of 3 still counts as balanced
suggestWorkloadBalancing_above3(members, list) ==
    LET workload == sortWorkload(workloadOf(members, list))
    IN  IF Len(workload) = 0
        THEN [outcome |-> "TypeError"]
        ELSE LET maxLoad == workload[1].taskCount
                 minLoad == workload[Len(workload)].taskCount
             IN  IF maxLoad - minLoad > 3
                 THEN [outcome |-> "returned",
                       value |-> [needsBalancing |-> TRUE,
                                  overloaded |-> workload[1],
                                  underutilized |-> workload[Len(workload)],
                                  suggestion |->
                                      [text |-> "Consider reassigning tasks from A (N tasks) to B (M tasks)",
                                       from |-> workload[1].member.name,
                                       fromLoad |-> maxLoad,
                                       to |-> workload[Len(workload)].member.name,
                                       toLoad |-> minLoad]]]
                 ELSE [outcome |-> "returned",
                       value |-> [needsBalancing |-> FALSE,
                                  message |-> "Workload is balanced across team"]]

\* what the call does: it returns a value, or reading taskCount of
\* workload[0] throws a TypeError when the member list is empty
suggestWorkloadBalancing(members, list) ==
    LET workload == sortWorkload(workloadOf(members, list))
    IN  IF Len(workload) = 0
        THEN [outcome |-> "TypeError"]
        ELSE LET maxLoad == workload[1].taskCount
                 minLoad == workload[Len(workload)].taskCount
             IN  IF maxLoad - minLoad >= 3
                 THEN [outcome |-> "returned",
                       value |-> [needsBalancing |-> TRUE,
                                  overloaded |-> workload[1],
                                  underutilized |-> workload[Len(workload)],
                                  suggestion |->
                                      [text |-> "Consider reassigning tasks from A (N tasks) to B (M tasks)",
                                       from |-> workload[1].member.name,
                                       fromLoad |-> maxLoad,
                                       to |-> workload[Len(workload)].member.name,
                                       toLoad |-> minLoad]]]
                 ELSE [outcome |-> "returned",
                       value |-> [needsBalancing |-> FALSE,
                                  message |-> "Workload is balanced across team"]]

----------------------------------------------------------------------------
(* Inputs *)

DueDates == {None} \cup {Some(d) : d \in -(DaysBack * TicksPerDay) .. (DaysAhead * TicksPerDay + 1)}
Progresses == {None, Some(0), Some(20), Some(29), Some(30), Some(49), Some(50),
               Some(79), Some(80)}
Priorities == {"low", "medium", "high"}
Statuses == {"pending", "in_progress", "completed", "cancelled"}
DependsOn == {None, Some(<<>>), Some(<<1>>)}
EstimatedHours == {None, Some(0), Some(hoursPerDay), Some(hoursPerDay + 1),
                   Some(2 * hoursPerDay + 1)}
Roles == {"admin", "member", "manager", "lead", "employee", "intern"}
UserIds == {1, 2}
Depts == {"eng", "ops"}

\* every task record, for the calls on one task
TaskDomain ==
    [due_date : DueDates, progress : Progresses, priority : Priorities,
     status : {"pending", "completed"}, depends_on : DependsOn,
     estimated_hours : EstimatedHours]

\* the task records the lists are made of: overdue by a day or due within a
\* day, with little or much progress, active or not
TaskPool ==
    [due_date : {Some(-TicksPerDay), Some(1)}, progress : {Some(20), Some(90)},
     priority : {"high"}, status : {"pending", "completed", "cancelled"},
     depends_on : {None}, estimated_hours : {None}]

\* the rows of weekly_tasks the handler's query runs on
RowPool ==
    [due_date : {Some(-TicksPerDay)}, progress : {Some(20)},
     priority : {"medium"}, status : Statuses,
     depends_on : {None}, estimated_hours : {None},
     assigned_to : UserIds, dept : Depts]

Users == [id : {1}, dept : {"eng"}, role : Roles]

\* the goals and tasks predictCompletion is called on; a goal has no due_date
Items ==
    [created_at : {Some(d) : d \in -(DaysBack * TicksPerDay) .. TicksPerDay},
     due_date : DueDates,
     progress : {None, Some(0), Some(40), Some(50), Some(60), Some(100)}]

\* a goal created 15 days before and due 15 days after the clock starts, as
\* one created 2026-01-01 and due 2026-01-31 is on 2026-01-16
ScheduledItem ==
    [created_at |-> Some(-(15 * TicksPerDay)), due_date |-> Some(15 * TicksPerDay),
     progress |-> Some(80)]

\* the lists of n records of P, each with its position as id
ListsOf(P, n) ==
    {[k \in 1..n |-> [id |-> k] @@ f[k]] : f \in [1..n -> P]}

MemberNames == <<"ann", "bob", "cy", "dee", "eve">>

\* team members, each with its position as id
MembersOf(skills, n) ==
    {[k \in 1..n |-> [id |-> k, name |-> MemberNames[k], skills |-> f[k]]] :
        f \in [1..n -> skills]}

\* the task being assigned: untagged or tagged
TaskDatas == {[tags |-> None], [tags |-> Some(<<"js", "sql">>)]}

\* the existing tasks of the calls on one member: overdue from the start, due
\* within a tick, or due just beyond three days; the member's or another's
ExistingPool ==
    [assigned_to : {1}, status : {"pending", "completed"},
     due_date : {Some(-1), Some(1), Some(upcomingDays * TicksPerDay + 1)}]
    \cup {[assigned_to |-> 2, status |-> "pending", due_date |-> Some(-1)],
          [assigned_to |-> 1, status |-> "in_progress", due_date |-> None]}

\* the existing tasks of the calls on a team: all active
TeamPool ==
    [assigned_to : {1, 2}, status : {"pending"},
     due_date : {Some(-1), Some(upcomingDays * TicksPerDay + 1)}]

\* the tasks suggestWorkloadBalancing counts: anyone's, active or not
LoadPool == [assigned_to : {1, 2}, status : {"pending", "in_progress", "completed"}]

\* a team whose members have 5, 4, 4 and 2 active tasks
TeamCounts == <<5, 4, 4, 2>>

RECURSIVE Sum(_, _)
Sum(counts, n) == IF n = 0 THEN 0 ELSE Sum(counts, n - 1) + counts[n]

CountedTeam == CHOOSE t \in MembersOf({None}, Len(TeamCounts)) : TRUE

CountedTasks ==
    [k \in 1..Sum(TeamCounts, Len(TeamCounts)) |->
        [id |-> k,
         assigned_to |-> CHOOSE o \in 1..Len(TeamCounts) :
                             Sum(TeamCounts, o - 1) < k /\ k <= Sum(TeamCounts, o),
         status |-> "pending"]]

\* a null element of the list; it has no property to read
NullTask == [isNull |-> TRUE]
IsNull(t) == "isNull" \in DOMAIN t

\* the elements of the lists with malformed entries: null, a record with no
\* due_date, and an overdue task
MalformedPool ==
    {NullTask}
    \cup [due_date : {None, Some(-TicksPerDay)}, progress : {Some(20)},
          priority : {"high"}, status : {"pending"}, depends_on : {None},
          estimated_hours : {None}]

\* a team with ties at both ends: 3, 0, 3 and 0 active tasks
TiedCounts == <<3, 0, 3, 0>>

TiedTasks ==
    [k \in 1..Sum(TiedCounts, Len(TiedCounts)) |->
        [id |-> k,
         assigned_to |-> CHOOSE o \in 1..Len(TiedCounts) :
                             Sum(TiedCounts, o - 1) < k /\ k <= Sum(TiedCounts, o),
         status |-> "in_progress"]]

\* the rows of weekly_tasks GET /suggestions runs on
SuggestRowPool ==
    [due_date : {Some(-TicksPerDay)}, progress : {Some(20)},
     priority : {"medium"}, status : {"pending", "completed"},
     depends_on : {None}, estimated_hours : {None},
     assigned_to : UserIds, dept : {"eng"}]

\* the rows of users: in the requester's department or not, active or not,
\* with a role the members query asks for or not
UserPool ==
    {[dept |-> "eng", status |-> "active", role |-> "employee"],
     [dept |-> "eng", status |-> "active", role |-> "member"],
     [dept |-> "eng", status |-> "inactive", role |-> "intern"],
     [dept |-> "ops", status |-> "active", role |-> "employee"]}

\* the users tables of n rows, each row with its position as id
UserTables(n) ==
    {[k \in 1..n |-> [id |-> k, name |-> MemberNames[k], email |-> MemberNames[k]]
                      @@ f[k]] : f \in [1..n -> UserPool]}

\* req.query: the context and the task_id, which may be missing or name no row
Queries ==
    {[context |-> "task_assignment", task_id |-> Some(1)],
     [context |-> "task_assignment", task_id |-> Some(MaxRows + 1)],
     [context |-> "task_assignment", task_id |-> None],
     [context |-> "other", task_id |-> Some(1)]}

TaskLists == UNION {ListsOf(TaskPool, n) : n \in 0..MaxTasks}

RowLists == UNION {ListsOf(RowPool, n) : n \in 0..MaxRows}

----------------------------------------------------------------------------
(* State *)

VARIABLES
    now,        \* the ambient clock
    rows,       \* the weekly_tasks table
    request,    \* <<req.user>> while GET /risks is served, <<>> otherwise
    response,   \* <<body>> once GET /risks has answered, <<>> before
    userTable,  \* the users table
    query,      \* <<req.query>> while GET /suggestions is served, <<>> otherwise
    tasks,      \* the argument of detectRisks
    pc,         \* where the call is: "request", "idle", "score", "classify", "done", "responded"
    i,          \* the forEach position
    riskScore,  \* the callback's riskScore
    risks,      \* the local risks array
    result,     \* the returned list
    scores,     \* history: what calculateRiskScore returned for each task so far
    scoredAt,   \* history: the clock the last calculateRiskScore read
    reasonsAt,  \* history: the clock the last getRiskReasons read
    item,       \* the argument of predictCompletion
    prediction, \* <<the result of predictCompletion>>, <<>> before it returns
    predictedAt, \* history: the clock predictCompletion read
    taskData,   \* suggestAssignee's task
    teamMembers, \* the member list of suggestAssignee or suggestWorkloadBalancing
    existingTasks, \* suggestAssignee's task list
    m,          \* the map position
    memberTasks, \* the callback's memberTasks
    overdueCount, \* the callback's overdueCount
    memberScores, \* the local scores array
    suggestion, \* <<the entry suggestAssignee returned>>, <<>> for undefined
    overdueAt,  \* history: the clock the overdue filter read, per member
    upcomingAt, \* history: the clock the deadline filter read, per member
    balancing   \* <<what suggestWorkloadBalancing returned>>, <<>> before or if it threw

riskVars == <<tasks, pc, i, riskScore, risks, result, scores, scoredAt, reasonsAt>>
routeVars == <<rows, request, response, userTable, query>>
predictVars == <<item, prediction, predictedAt>>
assignVars == <<taskData, teamMembers, existingTasks, m, memberTasks, overdueCount,
                memberScores, suggestion, overdueAt, upcomingAt>>
vars == <<now, routeVars, riskVars, predictVars, assignVars, balancing, balancing>>

InitCall ==
    /\ now = 0
    /\ i = 0
    /\ riskScore = 0
    /\ risks = <<>>
    /\ result = <<>>
    /\ scores = <<>>
    /\ scoredAt = 0
    /\ reasonsAt = 0
    /\ response = None
    /\ prediction = None
    /\ predictedAt = 0
    /\ m = 0
    /\ memberTasks = <<>>
    /\ overdueCount = 0
    /\ memberScores = <<>>
    /\ suggestion = None
    /\ overdueAt = <<>>
    /\ upcomingAt = <<>>
    /\ balancing = None

\* GET /suggestions is not being served
NoQuery ==
    /\ userTable = <<>>
    /\ query = None

\* no call of suggestAssignee is under way
NoAssign ==
    /\ taskData = [tags |-> None]
    /\ teamMembers = <<>>
    /\ existingTasks = <<>>

\* detectRisks is called with a list of task records
Init ==
    /\ tasks \in TaskLists
    /\ pc = "idle"
    /\ rows = <<>>
    /\ request = None
    /\ item = None
    /\ NoAssign
    /\ NoQuery
    /\ InitCall

\* detectRisks is called with one task record
InitOne ==
    /\ tasks \in ListsOf(TaskDomain, 1)
    /\ pc = "idle"
    /\ rows = <<>>
    /\ request = None
    /\ item = None
    /\ NoAssign
    /\ NoQuery
    /\ InitCall

\* GET /risks arrives from an authenticated user
InitRoute ==
    /\ rows \in RowLists
    /\ request \in {Some(u) : u \in Users}
    /\ pc = "request"
    /\ tasks = <<>>
    /\ item = None
    /\ NoAssign
    /\ NoQuery
    /\ InitCall

\* predictCompletion is called with a goal or a task
InitPredict ==
    /\ item \in {Some(it) : it \in Items \cup {ScheduledItem}}
    /\ pc = "predict"
    /\ tasks = <<>>
    /\ rows = <<>>
    /\ request = None
    /\ NoAssign
    /\ NoQuery
    /\ InitCall

\* suggestAssignee is called for a team
InitAssign ==
    /\ taskData \in TaskDatas
    /\ teamMembers \in UNION {MembersOf({None, Some(<<"js">>)}, n) : n \in 0..MaxMembers}
    /\ existingTasks \in UNION {ListsOf(TeamPool, n) : n \in 0..MaxTasks}
    /\ pc = "assign"
    /\ tasks = <<>>
    /\ rows = <<>>
    /\ request = None
    /\ item = None
    /\ NoQuery
    /\ InitCall

\* suggestAssignee is called for one member
InitAssignOne ==
    /\ taskData \in TaskDatas
    /\ teamMembers \in MembersOf({None, Some(<<"js">>), Some(<<"sql", "js">>)}, 1)
    /\ existingTasks \in UNION {ListsOf(ExistingPool, n) : n \in 0..MaxTasks}
    /\ pc = "assign"
    /\ tasks = <<>>
    /\ rows = <<>>
    /\ request = None
    /\ item = None
    /\ NoQuery
    /\ InitCall

\* suggestWorkloadBalancing is called for a team and a task list
InitBalance ==
    /\ \/ /\ teamMembers \in UNION {MembersOf({None}, n) : n \in 0..MaxMembers}
          /\ tasks \in UNION {ListsOf(LoadPool, n) : n \in 0..MaxTasks}
       \/ /\ teamMembers = CountedTeam
          /\ tasks \in {CountedTasks, TiedTasks}
    /\ taskData = [tags |-> None]
    /\ existingTasks = <<>>
    /\ pc = "balance"
    /\ rows = <<>>
    /\ request = None
    /\ item = None
    /\ NoQuery
    /\ InitCall

\* detectRisks is called with a list that may hold malformed elements
InitMalformed ==
    /\ tasks \in UNION {ListsOf(MalformedPool, n) : n \in 0..MaxTasks}
    /\ pc = "idle"
    /\ rows = <<>>
    /\ request = None
    /\ item = None
    /\ NoAssign
    /\ NoQuery
    /\ InitCall

\* GET /suggestions arrives from an authenticated user
InitSuggest ==
    /\ rows \in UNION {ListsOf(SuggestRowPool, n) : n \in 0..MaxRows}
    /\ userTable \in UNION {UserTables(n) : n \in 0..MaxRows}
    /\ request \in {Some(u) : u \in {v \in Users : v.role \in {"admin", "member"}}}
    /\ query \in {Some(q) : q \in Queries}
    /\ pc = "suggest"
    /\ tasks = <<>>
    /\ item = None
    /\ NoAssign
    /\ InitCall

\* the clock advances
Tick ==
    /\ now < MaxNow
    /\ now' = now + 1
    /\ UNCHANGED <<routeVars, riskVars, predictVars, assignVars, balancing>>

\* GET /risks: const tasks = await db.query(query, params)
GetRisks ==
    /\ pc = "request"
    /\ tasks' = risksQuery(rows, request[1])
    /\ pc' = "idle"
    /\ UNCHANGED <<now, routeVars, predictVars, assignVars, balancing, i, riskScore, risks, result, scores,
                   scoredAt, reasonsAt>>

\* detectRisks(tasks) is entered; an empty list returns at once
DetectRisks ==
    /\ pc = "idle"
    /\ risks' = <<>>
    /\ IF Len(tasks) = 0
       THEN /\ result' = sortRisks(risks')
            /\ pc' = "done"
            /\ i' = i
       ELSE /\ pc' = "score"
            /\ i' = 1
            /\ result' = result
    /\ UNCHANGED <<now, routeVars, predictVars, assignVars, balancing, tasks, riskScore, scores, scoredAt,
                   reasonsAt>>

\* const riskScore = this.calculateRiskScore(task)
Score ==
    /\ pc = "score"
    /\ ~IsNull(tasks[i])
    /\ riskScore' = calculateRiskScore(tasks[i], now)
    /\ scores' = Append(scores, riskScore')
    /\ scoredAt' = now
    /\ pc' = "classify"
    /\ UNCHANGED <<now, routeVars, predictVars, assignVars, balancing, tasks, i, risks, result, reasonsAt>>

\* calculateRiskScore(null): reading task.due_date throws a TypeError, which
\* leaves forEach and detectRisks
ScoreThrows ==
    /\ pc = "score"
    /\ IsNull(tasks[i])
    /\ pc' = "threw"
    /\ UNCHANGED <<now, routeVars, predictVars, assignVars, balancing, tasks, i,
                   riskScore, risks, result, scores, scoredAt, reasonsAt>>

\* the rest of the callback: push the entry for a score of 4 or more; after
\* the last task, sort and return
Classify ==
    /\ pc = "classify"
    /\ IF reported(riskScore)
       THEN /\ risks' = Append(risks, riskEntry(tasks[i], riskScore, now))
            /\ reasonsAt' = now
       ELSE UNCHANGED <<risks, reasonsAt>>
    /\ IF i = Len(tasks)
       THEN /\ result' = sortRisks(risks')
            /\ pc' = "done"
            /\ i' = i
       ELSE /\ pc' = "score"
            /\ i' = i + 1
            /\ result' = result
    /\ UNCHANGED <<now, routeVars, predictVars, assignVars, balancing, tasks, riskScore, scores, scoredAt>>

\* GET /risks: res.json({risks, count, high_severity, medium_severity})
Respond ==
    /\ pc = "done"
    /\ IsSet(request)
    /\ response' = Some(risksResponse(result))
    /\ pc' = "responded"
    /\ UNCHANGED <<now, rows, request, userTable, query, predictVars, assignVars, balancing, tasks, i, riskScore, risks,
                   result, scores, scoredAt, reasonsAt>>

\* predictCompletion(item) runs; const now = new Date() is its one clock read
PredictCompletion ==
    /\ pc = "predict"
    /\ prediction' = Some(predictCompletion(item[1], now))
    /\ predictedAt' = now
    /\ pc' = "predicted"
    /\ UNCHANGED <<now, routeVars, assignVars, balancing, item, tasks, i, riskScore, risks, result, scores,
                   scoredAt, reasonsAt>>

\* suggestAssignee(taskData, teamMembers, existingTasks) is entered; an empty
\* member list maps to an empty array, whose element 0 is returned
SuggestAssignee ==
    /\ pc = "assign"
    /\ memberScores' = <<>>
    /\ IF Len(teamMembers) = 0
       THEN /\ suggestion' = topOf(sortScores(memberScores'))
            /\ pc' = "assigned"
            /\ m' = m
       ELSE /\ pc' = "member"
            /\ m' = 1
            /\ suggestion' = suggestion
    /\ UNCHANGED <<now, routeVars, predictVars, tasks, i, riskScore, risks, result,
                   scores, scoredAt, reasonsAt, balancing, taskData, teamMembers,
                   existingTasks, memberTasks, overdueCount, overdueAt, upcomingAt>>

\* the start of the map callback: the member's active tasks and how many of
\* them are overdue
MemberLoad ==
    /\ pc = "member"
    /\ memberTasks' = memberTasksOf(teamMembers[m], existingTasks)
    /\ overdueCount' = overdueCountOf(memberTasks', now)
    /\ overdueAt' = Append(overdueAt, now)
    /\ pc' = "fit"
    /\ UNCHANGED <<now, routeVars, predictVars, tasks, i, riskScore, risks, result,
                   scores, scoredAt, reasonsAt, balancing, taskData, teamMembers,
                   existingTasks, m, memberScores, suggestion, upcomingAt>>

\* the rest of the callback: skills, upcoming deadlines, the entry; after the
\* last member, sort and return the first entry
MemberScore ==
    /\ pc = "fit"
    /\ memberScores' =
           Append(memberScores,
                  scoreEntry(teamMembers[m], memberTasks, overdueCount,
                             rawScore(teamMembers[m], memberTasks, overdueCount,
                                      taskData, now)))
    /\ upcomingAt' = Append(upcomingAt, now)
    /\ IF m = Len(teamMembers)
       THEN /\ suggestion' = topOf(sortScores(memberScores'))
            /\ pc' = "assigned"
            /\ m' = m
       ELSE /\ pc' = "member"
            /\ m' = m + 1
            /\ suggestion' = suggestion
    /\ UNCHANGED <<now, routeVars, predictVars, tasks, i, riskScore, risks, result,
                   scores, scoredAt, reasonsAt, balancing, taskData, teamMembers,
                   existingTasks, memberTasks, overdueCount, overdueAt>>

\* GET /suggestions up to the call of suggestAssignee: 400 without the context
\* or the task_id, 404 for a task_id that names no row, else the three queries
GetSuggestions ==
    /\ pc = "suggest"
    /\ IF ~(query[1].context = "task_assignment" /\ IsSet(query[1].task_id))
       THEN /\ response' = Some([status |-> 400,
                                 body |-> [error |-> "Invalid context or missing parameters"]])
            /\ pc' = "responded"
            /\ UNCHANGED <<taskData, teamMembers, existingTasks>>
       ELSE IF Len(taskQuery(rows, query[1].task_id[1])) = 0
       THEN /\ response' = Some([status |-> 404, body |-> [error |-> "Task not found"]])
            /\ pc' = "responded"
            /\ UNCHANGED <<taskData, teamMembers, existingTasks>>
       ELSE /\ taskData' = [tags |-> None] @@ taskQuery(rows, query[1].task_id[1])[1]
            /\ teamMembers' = membersQuery(userTable, request[1])
            /\ existingTasks' = activeTasksQuery(rows)
            /\ pc' = "assign"
            /\ response' = response
    /\ UNCHANGED <<now, rows, request, userTable, query, predictVars, balancing, tasks,
                   i, riskScore, risks, result, scores, scoredAt, reasonsAt, m,
                   memberTasks, overdueCount, memberScores, suggestion, overdueAt,
                   upcomingAt>>

\* GET /suggestions after suggestAssignee has returned
RespondSuggestion ==
    /\ pc = "assigned"
    /\ IsSet(query)
    /\ response' = Some(suggestionResponse(suggestion))
    /\ pc' = "responded"
    /\ UNCHANGED <<now, rows, request, userTable, query, predictVars, assignVars,
                   balancing, tasks, i, riskScore, risks, result, scores, scoredAt,
                   reasonsAt>>

\* calculateRiskScore(task) is called once more with the task of the call that
\* has returned; const now = new Date() reads the clock again
Rescore ==
    /\ pc = "done"
    /\ Len(tasks) = 1
    /\ scores' = Append(scores, calculateRiskScore(tasks[1], now))
    /\ scoredAt' = now
    /\ pc' = "rescored"
    /\ UNCHANGED <<now, routeVars, predictVars, assignVars, balancing, tasks, i,
                   riskScore, risks, result, reasonsAt>>

\* faulty variant: the member list itself is sorted by load
SuggestWorkloadBalancing_sortsMembers ==
    /\ pc = "balance"
    /\ LET call == suggestWorkloadBalancing(teamMembers, tasks)
           sorted == sortWorkload(workloadOf(teamMembers, tasks))
       IN  /\ teamMembers' = [k \in 1..Len(sorted) |-> sorted[k].member]
           /\ IF call.outcome = "TypeError"
              THEN /\ pc' = "threw"
                   /\ balancing' = None
              ELSE /\ pc' = "balanced"
                   /\ balancing' = Some(call.value)
    /\ UNCHANGED <<now, routeVars, predictVars, taskData, existingTasks, m,
                   memberTasks, overdueCount, memberScores, suggestion, overdueAt,
                   upcomingAt, tasks, i, riskScore, risks, result, scores,
                   scoredAt, reasonsAt>>

\* suggestWorkloadBalancing(teamMembers, tasks) runs; it reads no clock
SuggestWorkloadBalancing ==
    /\ pc = "balance"
    /\ LET call == suggestWorkloadBalancing(teamMembers, tasks)
       IN  IF call.outcome = "TypeError"
           THEN /\ pc' = "threw"
                /\ balancing' = None
           ELSE /\ pc' = "balanced"
                /\ balancing' = Some(call.value)
    /\ UNCHANGED <<now, routeVars, predictVars, assignVars, tasks, i, riskScore,
                   risks, result, scores, scoredAt, reasonsAt>>

Next == Tick \/ DetectRisks \/ Score \/ Classify

NextRoute == GetRisks \/ Next \/ Respond

Spec == Init /\ [][Next]_vars

SpecOne == InitOne /\ [][Next]_vars

NextPredict == Tick \/ PredictCompletion

\* both ways the service is entered: a direct call and GET /risks
SpecRoute == (Init \/ InitRoute) /\ [][NextRoute]_vars

SpecPredict == InitPredict /\ [][NextPredict]_vars

NextMalformed == Next \/ ScoreThrows

SpecMalformed == InitMalformed /\ [][NextMalformed]_vars

NextBalance == SuggestWorkloadBalancing

SpecBalance == InitBalance /\ [][NextBalance]_vars

NextAssign == Tick \/ SuggestAssignee \/ MemberLoad \/ MemberScore

SpecAssign == InitAssign /\ [][NextAssign]_vars

SpecAssignOne == InitAssignOne /\ [][NextAssign]_vars

NextSuggest ==
    \/ Tick
    \/ GetSuggestions
    \/ SuggestAssignee \/ MemberLoad \/ MemberScore
    \/ RespondSuggestion

SpecSuggest == InitSuggest /\ [][NextSuggest]_vars

NextTwice == Next \/ Rescore

\* one task, scored by detectRisks and then by a second call
SpecTwice == InitOne /\ [][NextTwice]_vars

\* the direct calls of the service's functions
NextCalls ==
    \/ Tick
    \/ DetectRisks \/ Score \/ Classify
    \/ PredictCompletion
    \/ SuggestAssignee \/ MemberLoad \/ MemberScore
    \/ SuggestWorkloadBalancing

SpecCalls == (Init \/ InitPredict \/ InitAssign \/ InitBalance) /\ [][NextCalls]_vars

----------------------------------------------------------------------------
(* Properties *)

ActiveStatuses == {"pending", "in_progress"}

\* the positions of `list` that hold an entry for task `t`
EntriesOf(list, t) == {p \in 1..Len(list) : list[p].task = t}

\* C1: every value calculateRiskScore returns, for any task record and any
\* clock, is an integer from 0 to 10.
C1_ScoreInRange == \A k \in 1..Len(scores) : scores[k] \in 0..10

\* the clamp acts: a task whose bonuses add up to more than 10 scored 10
C1_Witness ==
    /\ pc = "classify"
    /\ riskSum(tasks[i], scoredAt) > 10
    /\ riskScore = 10

\* C2: a task whose due_date is strictly before the clock, by any amount, and
\* whose status is not completed is reported with severity medium or high.
C2_OverdueIsReported ==
    pc = "done" =>
        \A k \in 1..Len(tasks) :
            (/\ IsSet(tasks[k].due_date)
             /\ tasks[k].due_date[1] < scoredAt
             /\ tasks[k].status # "completed")
            => \E p \in EntriesOf(result, tasks[k]) :
                   result[p].severity \in {"medium", "high"}

\* C3 as claimed: whatever list detectRisks is given, the list it returns
\* holds only tasks whose status is pending or in_progress.
C3_ResultOnlyActive ==
    \A p \in 1..Len(result) : result[p].task.status \in ActiveStatuses

\* C3 as amended: the risks GET /risks answers with hold only tasks whose
\* status is pending or in_progress, because the handler's query selects
\* only those rows.
C3_RouteOnlyActive ==
    IsSet(request) =>
        /\ \A p \in 1..Len(result) : result[p].task.status \in ActiveStatuses
        /\ IsSet(response) =>
               \A p \in 1..Len(response[1].risks) :
                   response[1].risks[p].task.status \in ActiveStatuses

\* GET /risks answered with a risk while the table holds a completed row
C3_Witness ==
    /\ IsSet(response)
    /\ response[1].count = 1
    /\ \E k \in 1..Len(rows) : rows[k].status = "completed"

\* C4: the returned list holds no task that scored below 4 and holds every
\* task that scored 4 or more exactly once, with the score it got.
C4_ReportedIffScored ==
    pc = "done" =>
        /\ \A p \in 1..Len(result) :
               /\ result[p].riskScore >= 4
               /\ result[p].task.id \in 1..Len(tasks)
               /\ result[p].task = tasks[result[p].task.id]
               /\ result[p].riskScore = scores[result[p].task.id]
        /\ \A k \in 1..Len(tasks) :
               Cardinality(EntriesOf(result, tasks[k]))
                   = IF scores[k] >= 4 THEN 1 ELSE 0

\* a list of three tasks of which one scored below 4 and two were reported
C4_Witness ==
    /\ pc = "done"
    /\ Len(tasks) = 3
    /\ Len(result) = 2
    /\ \E k \in 1..3 : scores[k] < 4

\* C5: the returned list is in non-increasing order of riskScore and entries
\* of equal riskScore are in the order their tasks had in the input list.
C5_SortedStable ==
    pc = "done" =>
        \A p, q \in 1..Len(result) :
            p < q =>
                /\ result[p].riskScore >= result[q].riskScore
                /\ result[p].riskScore = result[q].riskScore
                       => result[p].task.id < result[q].task.id

\* the sort moved the last task to the front of two that tie
C5_Witness ==
    /\ pc = "done"
    /\ Len(result) = 3
    /\ result[1].task.id = 3
    /\ result[2].riskScore = result[3].riskScore
    /\ result[1].riskScore > result[2].riskScore

\* C6: in every entry severity is decided by riskScore alone: high exactly
\* for 7 and more, medium exactly for 4 to 6, and nothing else.
C6_SeverityByScore ==
    \A list \in {risks, result} :
        \A p \in 1..Len(list) :
            /\ list[p].severity \in {"high", "medium"}
            /\ list[p].severity = "high" <=> list[p].riskScore >= 7
            /\ list[p].severity = "medium"
                   <=> (4 <= list[p].riskScore /\ list[p].riskScore <= 6)

\* an entry at the lower end of high
C6_Witness ==
    /\ pc = "done"
    /\ Len(result) = 1
    /\ result[1].riskScore = 7
    /\ result[1].severity = "high"

\* the score as C7 states it: min(10, S), with the overdue bonus given for
\* due_date < now
ClaimedScore(task, clock) ==
    LET d == daysUntil(task.due_date, clock)
        progress == task.progress
    IN  Min(10,
              (IF IsSet(task.due_date) /\ task.due_date[1] < clock THEN 5 ELSE 0)
            + (IF IsSet(d) /\ d[1] <= 1 /\ IsSet(progress) /\ progress[1] < 80 THEN 4
               ELSE IF IsSet(d) /\ d[1] <= 3 /\ IsSet(progress) /\ progress[1] < 50
                    THEN 3 ELSE 0)
            + (IF task.priority = "high" /\ IsSet(progress) /\ progress[1] < 30
               THEN 2 ELSE 0)
            + (IF IsSet(task.depends_on) /\ task.depends_on[1] # <<>> THEN 1 ELSE 0)
            + (IF /\ IsSet(task.estimated_hours)
                  /\ IsSet(d) /\ d[1] > 0
                  /\ task.estimated_hours[1] > hoursPerDay * d[1]
               THEN 2 ELSE 0))

\* C7: calculateRiskScore equals min(10, S), S the sum of 5 if due_date < now,
\* 4 or else 3 for a near deadline with low progress, 2 for high priority
\* with progress < 30, 1 for dependencies and 2 for estimated hours that do
\* not fit, for every combination of inputs.
C7_ScoreFormula ==
    pc = "classify" => riskScore = ClaimedScore(tasks[i], scoredAt)

\* the task of C8: pending, due exactly 2 days before the clock, priority
\* high, progress 20, no dependencies, no estimated_hours
C8_Task(task, clock) ==
    /\ task.status = "pending"
    /\ task.due_date = Some(clock - 2 * TicksPerDay)
    /\ task.priority = "high"
    /\ task.progress = Some(20)
    /\ ~hasDependencies(task)
    /\ task.estimated_hours = None

\* C8 as claimed: that task gets risk score 7 and severity high.
C8_ScoreSeven ==
    /\ (pc = "classify" /\ C8_Task(tasks[i], scoredAt)) => riskScore = 7
    /\ (pc = "done" /\ C8_Task(tasks[1], scoredAt)) =>
           /\ Len(result) = 1
           /\ result[1].riskScore = 7
           /\ result[1].severity = "high"

\* C8 as amended: that task gets risk score 10 (5 for overdue, 4 for due
\* within a day with progress < 80, 2 for high priority with progress < 30,
\* clamped to 10) and severity high.
C8_ScoreTen ==
    /\ (pc = "classify" /\ C8_Task(tasks[i], scoredAt)) => riskScore = 10
    /\ (pc = "done" /\ C8_Task(tasks[1], scoredAt)) =>
           /\ Len(result) = 1
           /\ result[1].riskScore = 10
           /\ result[1].severity = "high"

\* detectRisks returned for that task
C8_Witness ==
    /\ pc = "done"
    /\ C8_Task(tasks[1], scoredAt)
    /\ Len(result) = 1

\* the reasons as C9 states them: each clause exactly when its condition
\* holds, in the stated order
ClaimedReasons(task, clock) ==
    LET d == daysUntil(task.due_date, clock)
        progress == task.progress
    IN     (IF IsSet(d) /\ d[1] < 0
            THEN << <<"Overdue by N day(s)", -d[1]>> >> ELSE <<>>)
        \o (IF IsSet(d) /\ 0 <= d[1] /\ d[1] <= 1
            THEN << <<"Due in N day(s)", d[1]>> >> ELSE <<>>)
        \o (IF IsSet(progress) /\ progress[1] < 50 /\ IsSet(d) /\ d[1] <= 3
            THEN << <<"Only P% complete", progress[1]>> >> ELSE <<>>)
        \o (IF task.priority = "high" THEN << <<"High priority">> >> ELSE <<>>)
        \o (IF IsSet(task.depends_on) /\ task.depends_on[1] # <<>>
            THEN << <<"Has dependencies">> >> ELSE <<>>)

\* C9: the reasons of an entry are, in this order, 'Overdue by N' (days < 0)
\* or else 'Due in N' (0 <= days <= 1), 'Only P% complete' (progress < 50 and
\* days <= 3), 'High priority', 'Has dependencies', each present exactly
\* when its condition holds.
C9_ReasonsInOrder ==
    \A p \in 1..Len(risks) :
        risks[p].reasons = ClaimedReasons(risks[p].task, reasonsAt)

\* an entry with all four clauses
C9_Witness ==
    /\ Len(risks) = 1
    /\ Len(risks[1].reasons) = 4
    /\ risks[1].reasons[1][1] = "Overdue by N day(s)"

\* C10: when totalDays <= 0 (created_at equal to or after due_date),
\* predictCompletion returns metrics whose expectedProgress and progressDelta
\* are numbers: neither NaN nor infinite.
C10_MetricsFinite ==
    (/\ pc = "predicted"
     /\ IsSet(item[1].due_date)
     /\ ceilDays(item[1].due_date, item[1].created_at)[1].v <= 0)
    => /\ prediction[1].metrics.expectedProgress.k = "fin"
       /\ prediction[1].metrics.progressDelta.k = "fin"

\* C11: the result of predictCompletion pairs its status with one confidence:
\* overdue with 100, ahead_of_schedule with 90, on_track with 80, at_risk with
\* 70 and behind_schedule with 85; the confidence does not fall with the
\* severity.
C11_StatusConfidencePaired ==
    pc = "predicted"
    => <<prediction[1].status, prediction[1].confidence>> \in
           {<<"overdue", 100>>, <<"ahead_of_schedule", 90>>, <<"on_track", 80>>,
            <<"at_risk", 70>>, <<"behind_schedule", 85>>}

\* a behind_schedule prediction, more confident than the at_risk one
C11_Witness ==
    /\ pc = "predicted"
    /\ prediction[1].status = "behind_schedule"
    /\ prediction[1].confidence = 85
    /\ prediction[1].metrics.progressDelta.k = "fin"

\* progressDelta >= c for progressDelta = progress - (daysElapsed / totalDays)
\* * 100, by cross-multiplication where the quotient is a number
ClaimedAtLeast(it, clock, c) ==
    LET p == IF IsSet(it.progress) THEN it.progress[1] ELSE 0
        t == Ceil(it.due_date[1] - it.created_at[1], TicksPerDay)
        e == Ceil(clock - it.created_at[1], TicksPerDay)
    IN  IF IsSet(it.due_date) /\ t > 0 THEN (p - c) * t >= 100 * e
        ELSE IF IsSet(it.due_date) /\ t < 0 THEN (p - c) * t <= 100 * e
        ELSE Ge(minus(p, expectedProgressOf(ceilDays(Some(clock), it.created_at),
                                            ceilDays(it.due_date, it.created_at))), c)

ClaimedStatus(it, clock) ==
    IF IsSet(it.due_date) /\ Ceil(it.due_date[1] - clock, TicksPerDay) < 0
    THEN "overdue"
    ELSE IF ClaimedAtLeast(it, clock, 10) THEN "ahead_of_schedule"
    ELSE IF ClaimedAtLeast(it, clock, -10) THEN "on_track"
    ELSE IF ClaimedAtLeast(it, clock, -25) THEN "at_risk"
    ELSE "behind_schedule"

\* C12: predictCompletion takes the first class that matches, in this order:
\* overdue if daysRemaining < 0, ahead_of_schedule if progressDelta >= 10,
\* on_track if progressDelta >= -10, at_risk if progressDelta >= -25, else
\* behind_schedule, with progressDelta = progress - (daysElapsed / totalDays)
\* * 100.  A goal of 30 days read on its 15th day with progress 80 has
\* expected progress 50 and delta +30 and is ahead_of_schedule with
\* confidence 90.
C12_FirstMatch ==
    pc = "predicted"
    => /\ prediction[1].status = ClaimedStatus(item[1], predictedAt)
       /\ (item[1] = ScheduledItem /\ predictedAt = 0)
          => /\ prediction[1].metrics.expectedProgress = Fin(50, 1)
             /\ prediction[1].metrics.progressDelta = Fin(30, 1)
             /\ prediction[1].status = "ahead_of_schedule"
             /\ prediction[1].confidence = 90

\* the 30-day goal predicted on its 15th day
C12_Witness ==
    /\ pc = "predicted"
    /\ item[1] = ScheduledItem
    /\ predictedAt = 0
    /\ prediction[1].status = "ahead_of_schedule"

\* the positions of existingTasks that hold an active task of `member`
ActiveOf(member) ==
    {j \in 1..Len(existingTasks) :
        /\ existingTasks[j].assigned_to = member.id
        /\ existingTasks[j].status \in ActiveStatuses}

\* C13: for a non-empty member list, the score of the suggestion that
\* suggestAssignee returns is never negative, however many active, overdue or
\* soon-due tasks the member has; no candidate's score is.
C13_ScoreNotNegative ==
    /\ \A k \in 1..Len(memberScores) : memberScores[k].score >= 0
    /\ (pc = "assigned" /\ Len(teamMembers) > 0)
       => IsSet(suggestion) /\ suggestion[1].score >= 0

\* a member whose penalties exceed 100 is returned with score 0
C13_Witness ==
    /\ pc = "assigned"
    /\ IsSet(suggestion)
    /\ suggestion[1].score = 0
    /\ rawScore(teamMembers[1], memberTasks, overdueCount, taskData, upcomingAt[1]) < 0

\* C14: the entry suggestAssignee returns has a score greater than or equal to
\* the score of every candidate computed in the same call.
C14_TopScore ==
    (pc = "assigned" /\ IsSet(suggestion))
    => \A k \in 1..Len(memberScores) : suggestion[1].score >= memberScores[k].score

\* the second member scored higher than the first and was returned
C14_Witness ==
    /\ pc = "assigned"
    /\ Len(memberScores) >= 2
    /\ memberScores[1].score < memberScores[2].score
    /\ suggestion[1].member.id = 2

\* C15: when several members have the highest score, suggestAssignee returns
\* the one that comes first in the input member list.
C15_FirstOfTies ==
    (pc = "assigned" /\ IsSet(suggestion))
    => \A k \in 1..Len(memberScores) :
           memberScores[k].score = suggestion[1].score
           => suggestion[1].member.id <= teamMembers[k].id

\* the first two members tie at the top and the first is returned
C15_Witness ==
    /\ pc = "assigned"
    /\ Len(memberScores) >= 2
    /\ memberScores[1].score = memberScores[2].score
    /\ \A k \in 1..Len(memberScores) : memberScores[k].score <= memberScores[1].score
    /\ suggestion[1].member.id = 1

\* the counts of the claimed formula for the k-th member
ClaimedOverdue(k) ==
    Cardinality({j \in ActiveOf(teamMembers[k]) :
                    /\ IsSet(existingTasks[j].due_date)
                    /\ existingTasks[j].due_date[1] < overdueAt[k]})

ClaimedUpcoming(k) ==
    Cardinality({j \in ActiveOf(teamMembers[k]) :
                    /\ IsSet(existingTasks[j].due_date)
                    /\ Ceil(existingTasks[j].due_date[1] - upcomingAt[k], TicksPerDay) <= 3})

ClaimedMatches(k) ==
    IF IsSet(taskData.tags) /\ IsSet(teamMembers[k].skills)
    THEN Cardinality({j \in 1..Len(taskData.tags[1]) :
                         \E q \in 1..Len(teamMembers[k].skills[1]) :
                             teamMembers[k].skills[1][q] = taskData.tags[1][j]})
    ELSE 0

\* C16: each member's score is max(0, 100 - 15*A - 25*O + 20*M - 10*U), with A
\* the member's tasks of status pending or in_progress, O those of them with
\* due_date < now, U those with ceil(days until due) <= 3 and M the task tags
\* found in the member's skills (0 without tags or skills); nothing clamps
\* the score from above; activeTasks is A and overdueCount is O.
C16_ScoreFormula ==
    \A k \in 1..Len(memberScores) :
        LET A == Cardinality(ActiveOf(teamMembers[k]))
            raw == 100 - 15 * A - 25 * ClaimedOverdue(k) + 20 * ClaimedMatches(k)
                       - 10 * ClaimedUpcoming(k)
        IN  /\ memberScores[k].score = IF raw < 0 THEN 0 ELSE raw
            /\ memberScores[k].activeTasks = A
            /\ memberScores[k].overdueCount = ClaimedOverdue(k)

\* a member with an active task scores above 100 on matching skills
C16_Witness ==
    /\ pc = "assigned"
    /\ Len(memberScores) = 1
    /\ memberScores[1].score > 100
    /\ memberScores[1].activeTasks > 0
    /\ ClaimedMatches(1) = 2

ClaimedFit(score) ==
    IF score >= 80 THEN "Best fit"
    ELSE IF score >= 50 THEN "Good fit" ELSE "Available but busy"

ClaimedBase(n) ==
    IF n = 0 THEN {<<"no active tasks", 0>>}
    ELSE IF n <= 2 THEN {<<"only N active task", n>>, <<"only N active tasks", n>>}
    ELSE {<<"N active tasks", n>>}

\* C17: the reasoning of an entry names the tier of the score returned with
\* it: Best fit for a score of 80 or more, Good fit from 50 to 79, Available
\* but busy below 50, a floored score included; its base clause is 'no active
\* tasks' for 0 active tasks, 'only N active task(s)' for 1 or 2 and 'N active
\* tasks' for 3 or more, followed by 'N overdue' only when overdueCount > 0.
C17_ReasoningMatchesScore ==
    \A k \in 1..Len(memberScores) :
        LET e == memberScores[k]
        IN  /\ e.reasoning.name = e.member.name
            /\ e.reasoning.fit = ClaimedFit(e.score)
            /\ e.reasoning.reasons[1] \in ClaimedBase(e.activeTasks)
            /\ Len(e.reasoning.reasons) = IF e.overdueCount > 0 THEN 2 ELSE 1
            /\ e.overdueCount > 0
               => e.reasoning.reasons[2] = <<"N overdue", e.overdueCount>>

\* a floored entry is Available but busy, with its overdue clause
C17_Witness ==
    /\ pc = "assigned"
    /\ suggestion[1].score = 0
    /\ suggestion[1].reasoning.fit = "Available but busy"
    /\ suggestion[1].reasoning.reasons =
           <<<<"N active tasks", 3>>, <<"N overdue", 3>>>>

\* the active-task count of the k-th member
ClaimedCount(k) ==
    Cardinality({j \in 1..Len(tasks) :
                    /\ tasks[j].assigned_to = teamMembers[k].id
                    /\ tasks[j].status \in ActiveStatuses})

ClaimedGap ==
    CHOOSE g \in 0..Len(tasks) :
        \E hi, lo \in 1..Len(teamMembers) :
            /\ g = ClaimedCount(hi) - ClaimedCount(lo)
            /\ \A k \in 1..Len(teamMembers) :
                   ClaimedCount(lo) <= ClaimedCount(k) /\ ClaimedCount(k) <= ClaimedCount(hi)

\* C18: for a non-empty member list, suggestWorkloadBalancing returns
\* needsBalancing = true exactly when the largest active-task count minus the
\* smallest is 3 or more; below 3 it returns needsBalancing = false with the
\* message 'Workload is balanced across team'; counts 5, 4, 4, 2 give true.
C18_BalancingByGap ==
    Len(teamMembers) > 0
    => /\ pc # "threw"
       /\ pc = "balanced"
          => /\ balancing[1].needsBalancing = (ClaimedGap >= 3)
             /\ ClaimedGap < 3
                => balancing[1].message = "Workload is balanced across team"
             /\ (teamMembers = CountedTeam /\ tasks = CountedTasks)
                => balancing[1].needsBalancing

\* the team with counts 5, 4, 4, 2 is told to rebalance from the first member
\* to the last
C18_Witness ==
    /\ pc = "balanced"
    /\ tasks = CountedTasks
    /\ Len(teamMembers) = Len(TeamCounts)
    /\ balancing[1].needsBalancing
    /\ balancing[1].overloaded.taskCount - balancing[1].underutilized.taskCount = 3

\* C19: called with an empty member list, suggestWorkloadBalancing does not
\* fail: it returns a result.
C19_EmptyTeamHandled ==
    (Len(teamMembers) = 0 /\ pc \in {"balanced", "threw"})
    => pc = "balanced" /\ IsSet(balancing)

\* C20: a malformed element of the list detectRisks is given, a null entry or
\* a record with no due_date, does not abort the call: it returns, every
\* well-formed task of the list has been scored, and each one that scored 4
\* or more is in the returned list.
C20_BatchNotAborted ==
    /\ pc # "threw"
    /\ pc = "done"
       => /\ Len(scores) = Len(tasks)
          /\ \A k \in 1..Len(tasks) :
                 (~IsNull(tasks[k]) /\ scores[k] >= 4)
                 => EntriesOf(result, tasks[k]) # {}

\* C21: none of suggestAssignee, predictCompletion, detectRisks,
\* calculateRiskScore and suggestWorkloadBalancing changes its inputs: no step
\* of a call changes the task list, the member list, the task being assigned
\* or the item, in content or in order.
C21_InputsUnchanged ==
    [][UNCHANGED <<tasks, teamMembers, existingTasks, taskData, item>>]_vars

\* suggestWorkloadBalancing sorted its workload array, putting the second
\* member first, and the member list is in its order still
C21_Witness ==
    /\ pc = "balanced"
    /\ balancing[1].needsBalancing
    /\ balancing[1].overloaded.member.id = 2
    /\ teamMembers[1].id = 1
    /\ teamMembers[2].id = 2

\* C22: the scoring functions are deterministic in their arguments, the
\* current time being an argument and never read from the ambient clock: two
\* calls of calculateRiskScore with the same task return the same score.
C22_SameArgumentsSameScore ==
    pc = "rescored" => scores[1] = scores[2]

\* C23: the riskScore and the reasons of an entry of detectRisks describe the
\* same instant: the reasons are those getRiskReasons yields for the
\* days-until-due value the score was computed from, although the two read
\* the clock separately.
C23_ReasonsOfScoreInstant ==
    \A p \in 1..Len(risks) :
        risks[p].reasons = getRiskReasons(risks[p].task, risks[p].riskScore, scoredAt)

\* C24: every entry detectRisks returns has a non-empty reasons list: no
\* score of 4 or more is reached without one of the reason clauses being
\* true, although the estimated-hours bonus has no clause.
C24_ReasonsNotEmpty ==
    /\ \A p \in 1..Len(risks) : Len(risks[p].reasons) > 0
    /\ \A p \in 1..Len(result) : Len(result[p].reasons) > 0

\* an entry that owes part of its score to the estimated hours and has one
\* reason
C24_Witness ==
    /\ pc = "done"
    /\ Len(result) = 1
    /\ hoursBonus(tasks[1], daysUntil(tasks[1].due_date, scoredAt)) = 2
    /\ Len(result[1].reasons) = 1

\* C25: the overdue bonus and the estimated-hours bonus never apply to the
\* same task, so the sum before the clamp is at most 12, the clamp only acts
\* on overdue tasks, and a task with days_until_due >= 0 scores at most 9.
C25_OverdueExcludesHours ==
    pc = "classify"
    => LET task == tasks[i]
           daysUntilDue == daysUntil(task.due_date, scoredAt)
       IN  /\ ~(overdueBonus(task, daysUntilDue) > 0 /\ hoursBonus(task, daysUntilDue) > 0)
           /\ riskSum(task, scoredAt) <= 12
           /\ riskSum(task, scoredAt) > 10 => daysUntilDue[1] < 0
           /\ (IsSet(daysUntilDue) /\ daysUntilDue[1] >= 0) => riskScore <= 9

\* a task that is not overdue collects every other bonus and scores 9
C25_Witness ==
    /\ pc = "classify"
    /\ daysUntil(tasks[i].due_date, scoredAt) = Some(1)
    /\ hoursBonus(tasks[i], Some(1)) = 2
    /\ riskScore = 9

\* C26 as claimed: for an item with created_at <= now and created_at <
\* due_date that predictCompletion does not classify as overdue, the
\* expectedProgress metric lies in 0..100.
C26_ExpectedWithin100 ==
    (/\ pc = "predicted"
     /\ IsSet(item[1].due_date)
     /\ item[1].created_at[1] <= predictedAt
     /\ item[1].created_at[1] < item[1].due_date[1]
     /\ prediction[1].status # "overdue")
    => /\ prediction[1].metrics.expectedProgress.k = "fin"
       /\ prediction[1].metrics.expectedProgress.num >= 0
       /\ prediction[1].metrics.expectedProgress.num
              <= 100 * prediction[1].metrics.expectedProgress.den

\* C26, amended: for an item with created_at <= now <= due_date and
\* created_at < due_date, the expectedProgress metric lies in 0..100.
C26_ExpectedWithin100UntilDue ==
    (/\ pc = "predicted"
     /\ IsSet(item[1].due_date)
     /\ item[1].created_at[1] <= predictedAt
     /\ predictedAt <= item[1].due_date[1]
     /\ item[1].created_at[1] < item[1].due_date[1])
    => /\ prediction[1].metrics.expectedProgress.k = "fin"
       /\ prediction[1].metrics.expectedProgress.num >= 0
       /\ prediction[1].metrics.expectedProgress.num
              <= 100 * prediction[1].metrics.expectedProgress.den

\* an item read within its schedule whose last day has begun: 100 is expected
C26_Witness ==
    /\ pc = "predicted"
    /\ IsSet(item[1].due_date)
    /\ item[1].created_at[1] < predictedAt
    /\ predictedAt < item[1].due_date[1]
    /\ ceilDays(item[1].due_date, item[1].created_at)[1].v > 1
    /\ prediction[1].metrics.expectedProgress = Fin(100, 1)

\* `list` without its j-th element
Without(list, j) == SubSeq(list, 1, j - 1) \o SubSeq(list, j + 1, Len(list))

\* the unfloored score of the k-th member for the task list `list`, with the
\* clock reads of the call
RawOn(k, list) ==
    LET mine == memberTasksOf(teamMembers[k], list)
    IN  rawScore(teamMembers[k], mine, overdueCountOf(mine, overdueAt[k]), taskData,
                 upcomingAt[k])

\* C27: a member's score is monotone in workload: with one more pending or
\* in_progress task of the member, all else equal, the score is not higher;
\* an overdue task also counts as an upcoming deadline, so each overdue
\* active task lowers the unfloored score by 50 (15 + 25 + 10).
C27_MonotoneInLoad ==
    \A k \in 1..Len(memberScores) :
        /\ memberScores[k].score = Max(0, RawOn(k, existingTasks))
        /\ \A j \in ActiveOf(teamMembers[k]) :
               /\ memberScores[k].score <= Max(0, RawOn(k, Without(existingTasks, j)))
               /\ Lt(existingTasks[j].due_date, overdueAt[k])
                  => RawOn(k, existingTasks) = RawOn(k, Without(existingTasks, j)) - 50

\* a member whose one active task is overdue scores 50
C27_Witness ==
    /\ pc = "assigned"
    /\ Len(memberScores) = 1
    /\ memberScores[1].activeTasks = 1
    /\ memberScores[1].overdueCount = 1
    /\ memberScores[1].score = 50

\* C28: when suggestWorkloadBalancing returns needsBalancing = true,
\* overloaded is the first member in input order among those with the largest
\* active-task count, underutilized is the last in input order among those
\* with the smallest, the two are different members, and their counts differ
\* by 3 or more.
C28_OverloadedAndUnderutilized ==
    (pc = "balanced" /\ balancing[1].needsBalancing)
    => LET over == balancing[1].overloaded
           under == balancing[1].underutilized
       IN  /\ teamMembers[over.member.id] = over.member
           /\ teamMembers[under.member.id] = under.member
           /\ over.taskCount = ClaimedCount(over.member.id)
           /\ under.taskCount = ClaimedCount(under.member.id)
           /\ \A k \in 1..Len(teamMembers) :
                  /\ ClaimedCount(k) <= over.taskCount
                  /\ ClaimedCount(k) >= under.taskCount
                  /\ k < over.member.id => ClaimedCount(k) < over.taskCount
                  /\ k > under.member.id => ClaimedCount(k) > under.taskCount
           /\ over.member.id # under.member.id
           /\ over.taskCount - under.taskCount >= 3

\* two members tie at 3 and two at 0: the first and the last are named
C28_Witness ==
    /\ pc = "balanced"
    /\ tasks = TiedTasks
    /\ balancing[1].needsBalancing
    /\ balancing[1].overloaded.member.id = 1
    /\ balancing[1].underutilized.member.id = Len(TiedCounts)

\* the users the members query of GET /suggestions asks for
Eligible ==
    {k \in 1..Len(userTable) :
        /\ userTable[k].dept = request[1].dept
        /\ userTable[k].status = "active"
        /\ userTable[k].role \in {"employee", "intern"}}

\* C29: when no active employee or intern is in the requester's department,
\* suggestAssignee is called with an empty member list and returns undefined,
\* and GET /suggestions answers 500 'Failed to generate suggestions', not a
\* suggestion and not a 4xx.
C29_NoMemberAnswers500 ==
    /\ (pc = "assigned" /\ Len(teamMembers) = 0) => suggestion = None
    /\ (/\ pc = "responded"
        /\ query[1].context = "task_assignment"
        /\ IsSet(query[1].task_id)
        /\ \E k \in 1..Len(rows) : rows[k].id = query[1].task_id[1]
        /\ Eligible = {})
       => /\ suggestion = None
          /\ response[1] = [status |-> 500,
                            body |-> [error |-> "Failed to generate suggestions"]]

\* users exist, none of them an active employee or intern of the department:
\* the request ends in 500
C29_Witness ==
    /\ pc = "responded"
    /\ Len(userTable) > 0
    /\ \E k \in 1..Len(userTable) : userTable[k].role = "member"
    /\ Eligible = {}
    /\ suggestion = None
    /\ response[1].status = 500

\* C30: for every authenticated user whose role is not admin, whatever role
\* value the user record carries, the risks GET /risks answers with contain
\* only tasks assigned to that user, or for a lead only tasks of the lead's
\* department; and count equals high_severity + medium_severity.
C30_OnlyOwnRisks ==
    pc = "responded"
    => LET user == request[1]
           body == response[1]
       IN  /\ user.role # "admin"
              => \A p \in 1..Len(body.risks) :
                     IF user.role = "lead"
                     THEN body.risks[p].task.dept = user.dept
                     ELSE body.risks[p].task.assigned_to = user.id
           /\ body.count = body.high_severity + body.medium_severity

====
